---- MODULE Spec2Model ----
(***************************************************************************)
(* rustype: Option<T> and Result<T,E>.                                     *)
(*                                                                         *)
(* The repository holds several generations of both types.  Each one is    *)
(* modelled separately and its operators carry a prefix:                   *)
(*   Maybe_    Option built on the `maybe` closure  (Option/option.ts:264) *)
(*   OptionTs_ Option class with a `data` field     (Option/Option.ts)     *)
(*   Data_     Option class with a `data` field     (unnamed/part_013)     *)
(*   Sum_      Result built on Sum/Left/Right       (unnamed/part_011:44)  *)
(*   Closure_  Result built on the `either` closure (unnamed/part_011:664) *)
(*   Field_    Result class with type/data/error    (Result/Result.ts)     *)
(*                                                                         *)
(* A JavaScript value is a record [t |-> kind, v |-> payload].  A call     *)
(* that raises yields the pseudo-value Throw(kind).                        *)
(*                                                                         *)
(* Objects that can be changed after they are built (plain objects, Option *)
(* instances with a `data` field, jest mocks) live in `heap` and are held  *)
(* through Ref(i); the calls that read or write them carry the suffix      *)
(* _mem where a heap-free operator of the same method exists.              *)
(***************************************************************************)
EXTENDS Integers, Sequences, FiniteSets, TLC

VARIABLES op, args, out, heap

vars == <<op, args, out, heap>>

(* ---------------------------------------------------------------- bounds *)
MaxNum == 1
MaxLawNum == 0
\* How many calls a test makes on one instance.
MaxOps == 2
\* The longest Vector.
MaxVecLen == 4
\* The largest bound of a range.
MaxRange == 3

(* ---------------------------------------------------------------- values *)
Undefined == [t |-> "undefined", v |-> 0]
Null == [t |-> "null", v |-> 0]
Num(n) == [t |-> "number", v |-> n]
Str(s) == [t |-> "string", v |-> s]
Bool(b) == [t |-> "boolean", v |-> b]
Obj(k) == [t |-> "object", v |-> k]
Throw(k) == [t |-> "throw", v |-> k]
\* [x, y]: an array, given by the tuple of its elements.
Arr(s) == [t |-> "array", v |-> s]

IsThrow(r) == r.t = "throw"
IsNullish(a) == a.t \in {"undefined", "null"}

\* Boolean(a): the falsy values are undefined, null, false, 0 and "".
ToBoolean(a) ==
    CASE a.t \in {"undefined", "null"} -> FALSE
      [] a.t = "boolean" -> a.v
      [] a.t = "number" -> a.v # 0
      [] a.t = "string" -> a.v # ""
      [] OTHER -> TRUE

\* `${a}`: the string a converts to. An array joins its elements with
\* commas, null and undefined among them giving the empty string.
RECURSIVE join(_)
RECURSIVE ToStr(_)
ToStr(a) ==
    CASE a.t = "undefined" -> "undefined"
      [] a.t = "null" -> "null"
      [] a.t = "boolean" -> IF a.v THEN "true" ELSE "false"
      [] a.t = "number" -> ToString(a.v)
      [] a.t = "string" -> a.v
      [] a.t = "array" -> join(a.v)
      [] OTHER -> "[object Object]"

join(s) ==
    IF s = <<>> THEN ""
    ELSE LET h == IF IsNullish(s[1]) THEN "" ELSE ToStr(s[1])
         IN  IF Len(s) = 1 THEN h ELSE h \o "," \o join(Tail(s))

\* clone-deep: plain objects and arrays are rebuilt, element by element;
\* primitives, functions and class instances (Option, Result) are returned as
\* they are.
RECURSIVE clone(_)
clone(a) ==
    CASE a.t = "object" -> [t |-> "object", v |-> a.v]
      [] a.t = "array" -> Arr([i \in DOMAIN a.v |-> clone(a.v[i])])
      [] OTHER -> a

\* The payloads the tests draw with fc.anything().
Values ==
    {Undefined, Null, Bool(FALSE), Bool(TRUE), Str(""), Str("a"), Obj("code")}
        \cup {Num(n) : n \in 0..MaxNum}

\* The payloads of the law tests, which also draw functions over them.
LawValues == {Null} \cup {Num(n) : n \in 0..MaxLawNum}

(* ------------------------------------------------------------ functions *)
\* A function value: the text of the arrow function and what it captured.
\* Apply, at the end of this section, runs it.
Lambda(code, env) == [t |-> "function", v |-> [code |-> code, env |-> env]]

RECURSIVE Apply(_, _)

\* fc.func: a function drawn by the tests, given by its table.
fcFunc(table) == Lambda("fc.func", table)
id == Lambda("x => x", 0)
compose == Lambda("f => g => x => f(g(x))", 0)
toClone(fn) == Lambda("x => f(clone(x))", fn)

(* ------------------------------------------- Option on the maybe closure *)
\* mkSome(x) holds (none, some) => some(x), mkNone holds (none, some) => none().
mkSome(a) == [t |-> "Some", v |-> a]
mkNone == [t |-> "None", v |-> 0]

maybe(o, ifNone, ifSome) ==
    IF o.t = "None" THEN Apply(ifNone, Undefined) ELSE Apply(ifSome, o.v)

Maybe_isSome(o) == maybe(o, Lambda("() => false", 0), Lambda("_ => true", 0))
Maybe_isNone(o) == ~Maybe_isSome(o)

Maybe_andThen(o, fn) ==
    maybe(o, Lambda("None", 0), Lambda("x => f(clone(x))", fn))
Maybe_map(o, fn) == Maybe_andThen(o, Lambda("x => Some(f(clone(x)))", fn))
Maybe_mapOr(o, ifNone, fn) == maybe(o, Lambda("() => ifNone", ifNone), toClone(fn))
Maybe_mapOrElse(o, ifNone, fn) == maybe(o, ifNone, toClone(fn))
Maybe_expect_mut(o, err) ==
    maybe(o, Lambda("() => { throw TypeError(msg) }", 0), Lambda("clone", 0))

Maybe_expect(o, err) ==
    maybe(o, Lambda("() => {throw Error(err)}", err), Lambda("clone", 0))

Maybe_unwrap(o) ==
    maybe(o, Lambda("() => { throw TypeError(msg) }", 0), Lambda("clone", 0))
Maybe_replace(o, on) == Maybe_map(o, Lambda("_ => on", on))
Maybe_flatten(o) == Maybe_andThen(o, Lambda("y => y", 0))

(* ------------------------------------------------- Result on Sum<E,T> *)
\* mkOk(x) is Result(Right(x)), mkErr(e) is Result(Left(e)).
mkOk(a) == [t |-> "Ok", v |-> a]
mkErr(a) == [t |-> "Err", v |-> a]

\* Left.either calls the first handler, Right.either the second.
either(r, ifErr, ifOk) ==
    IF r.t = "Err" THEN Apply(ifErr, r.v) ELSE Apply(ifOk, r.v)

Sum_isOk(r) == either(r, Lambda("_ => false", 0), Lambda("_ => true", 0))
Sum_isErr(r) == ~Sum_isOk(r)

Sum_ok(r) == either(r, Lambda("_ => None()", 0), Lambda("Some", 0))
Sum_err(r) == either(r, Lambda("Some", 0), Lambda("_ => None()", 0))

Sum_andThen_mut(r, fn) ==
    either(r, Lambda("ok => f(clone(ok))", fn), Lambda("ok => f(clone(ok))", fn))

Sum_andThen(r, fn) ==
    either(r, Lambda("err => Err(err)", 0), Lambda("ok => f(clone(ok))", fn))

Sum_map(r, fn) == Sum_andThen(r, Lambda("x => Ok(f(clone(x)))", fn))

Sum_mapOrElse(r, ifErr, ifOk) == either(r, toClone(ifErr), toClone(ifOk))

Sum_unwrap(r) ==
    either(r, Lambda("err => unwrapFailed(msg, err)", 0), Lambda("clone", 0))

Sum_unwrapErr_mut(r) ==
    either(r, Lambda("err => unwrapFailed(msg, err)", 0), Lambda("clone", 0))

Sum_unwrapErr(r) ==
    either(r, Lambda("clone", 0), Lambda("err => unwrapFailed(msg, err)", 0))

Sum_swap_mut(x) ==
    either(x, Lambda("err => Err(err)", 0), Lambda("ok => Err(ok)", 0))

Sum_swap(x) == either(x, Lambda("err => Ok(err)", 0), Lambda("ok => Err(ok)", 0))

Sum_toString(r) ==
    either(r, Lambda("err => Err(${err.toString()})", 0),
              Lambda("ok => Ok(${ok.toString()})", 0))

Sum_mapErr_mut(r, fn) ==
    either(r, Lambda("err => Err(f(clone(err)))", fn),
              Lambda("err => Err(f(clone(err)))", fn))

Sum_mapErr(r, fn) ==
    either(r, Lambda("err => Err(f(clone(err)))", fn), Lambda("ok => Ok(ok)", 0))

Sum_ap_mut(r, fn) == Sum_andThen(r, Lambda("() => ifNone", fn))

Sum_ap(r, fn) == Sum_andThen(r, Lambda("x => fn.map(f => f(x))", fn))

\* Both closures of map2 capture `another` and f; the inner one also x.
Sum_map2_mut(r, another, fn) ==
    Sum_andThen(another,
        Lambda("x => another.map(y => f(clone(x),clone(y)))", <<r, fn>>))

Sum_map2(r, another, fn) ==
    Sum_andThen(r,
        Lambda("x => another.map(y => f(clone(x),clone(y)))", <<another, fn>>))

Sum_zip(r, withVal) == Sum_map2(r, withVal, Lambda("(x,y) => [x,y]", 0))

Sum_transpose_mut(r) ==
    either(r, Lambda("err => Some(Err(err))", 0),
              Lambda("val => Some(Ok(val))", 0))

Sum_transpose(r) ==
    either(r, Lambda("err => Some(Err(err))", 0),
              Lambda("ok => ok.mapOr(None(), val => Some(Ok(val)))", 0))

Maybe_transpose(o) ==
    Maybe_mapOrElse(o, Lambda("() => Ok(None())", 0),
        Lambda("r => r.mapOrElse(err => Err(err), ok => Ok(Some(ok)))", 0))

(* ----------------------------------- Result with type/data/error fields *)
Ok(a) == [t |-> "Ok", v |-> a]
Err(a) == [t |-> "Err", v |-> a]

IsResult(a) == a.t \in {"Ok", "Err"}

Field_isOk(r) == r.t = "Ok"
Field_isErr(r) == r.t = "Err"

\* unwrapFailed raises Error(msg + JSON of the payload).
Field_unwrap(r) == IF Field_isErr(r) THEN Throw("Error") ELSE r.v

Field_cloneErr(r) == IF Field_isErr(r) THEN clone(r.v) ELSE Throw("Error")

Field_unwrapOr(r, defaultVal) == IF Field_isErr(r) THEN defaultVal ELSE r.v
Field_unwrapOrElse(r, fn) ==
    IF Field_isErr(r) THEN Apply(fn, Undefined) ELSE r.v

(* ------------------------------------------ Result on the either closure *)
Closure_isOk(r) == either(r, Lambda("_ => false", 0), Lambda("_ => true", 0))

\* `!this.isOk` negates the method itself, a function object, not its result.
Closure_isErr(r) == ~ToBoolean(Lambda("isOk", r))

(* --------------------------------------- Option class with a data field *)
\* values.ts
Some(a) == IF IsNullish(a) THEN Throw("TypeError") ELSE [t |-> "Option", v |-> a]
None == [t |-> "Option", v |-> Null]

IsOption(a) == a.t = "Option"

\* Option/Option.ts
OptionTs_isSome(o) == ToBoolean(o.v)
OptionTs_isNone(o) == ~OptionTs_isSome(o)

OptionTs_unwrap(o) == IF OptionTs_isNone(o) THEN Throw("TypeError") ELSE o.v

OptionTs_unwrapOr(o, defaultVal) ==
    IF OptionTs_isNone(o) THEN defaultVal ELSE o.v
OptionTs_unwrapOrElse(o, fn) ==
    IF OptionTs_isNone(o) THEN Apply(fn, Undefined) ELSE o.v

\* A raise inside the argument of Ok(...) or Err(...) leaves the call.
OptionTs_transpose(o) ==
    IF OptionTs_isNone(o) THEN Ok(None)
    ELSE IF IsResult(o.v)
         THEN IF Field_isOk(o.v)
              THEN LET innerValue == Field_unwrap(o.v)
                       some == Some(innerValue)
                   IN  IF IsThrow(some) THEN some ELSE Ok(some)
              ELSE LET innerError == Field_unwrap(o.v)
                   IN  IF IsThrow(innerError) THEN innerError
                       ELSE Err(innerError)
         ELSE Throw("Error")

Field_toString(r) ==
    IF IsNullish(r.v) THEN Throw("TypeError")
    ELSE IF Field_isOk(r) THEN Str("Ok(" \o ToStr(r.v) \o ")")
    ELSE Str("Err(" \o ToStr(r.v) \o ")")

Field_ok(r) == IF Field_isErr(r) THEN None ELSE Some(r.v)
Field_err(r) == IF Field_isOk(r) THEN None ELSE Some(r.v)

OptionTs_flatten(o) ==
    IF OptionTs_isNone(o) THEN None
    ELSE IF IsOption(o.v) THEN o.v ELSE Some(o.v)

Field_transpose(r) ==
    IF Field_isErr(r) THEN Some(Err(Field_cloneErr(r)))
    ELSE IF IsOption(r.v)
         THEN IF OptionTs_isSome(r.v)
              THEN LET innerValue == OptionTs_unwrap(r.v)
                   IN  Some(Ok(innerValue))
              ELSE None
         ELSE Throw("Error")

\* unnamed/part_013
Data_isSome_mut(o) == ToBoolean(o.v)

Data_isSome(o) == IF IsNullish(o.v) THEN FALSE ELSE TRUE
Data_isNone(o) == ~Data_isSome(o)
Data_cloneInnerValue(o) == clone(o.v)
Data_unwrap(o) == IF Data_isNone(o) THEN Throw("TypeError") ELSE o.v
Data_map(o, fn) ==
    IF Data_isNone(o) THEN None ELSE Some(Apply(fn, Data_cloneInnerValue(o)))

(* -------------------------------------------------- running a function *)
Apply(fn, a) ==
    LET code == fn.v.code
        env == fn.v.env
    IN  CASE code = "fc.func" -> env[a]
          [] code = "x => x" -> a
          [] code = "f => g => x => f(g(x))" -> Lambda("g => x => f(g(x))", a)
          [] code = "g => x => f(g(x))" -> Lambda("x => f(g(x))", <<env, a>>)
          [] code = "x => f(g(x))" -> Apply(env[1], Apply(env[2], a))
          [] code = "x => f(clone(x))" -> Apply(env, clone(a))
          [] code = "() => false" -> FALSE
          [] code = "_ => false" -> FALSE
          [] code = "_ => true" -> TRUE
          [] code = "None" -> mkNone
          [] code = "x => Some(f(clone(x)))" -> mkSome(Apply(env, clone(a)))
          [] code = "() => ifNone" -> env
          [] code = "err => Err(err)" -> mkErr(a)
          [] code = "err => Err(f(clone(err)))" ->
                LET y == Apply(env, clone(a))
                IN  IF IsThrow(y) THEN y ELSE mkErr(y)
          [] code = "ok => Ok(ok)" -> mkOk(a)
          [] code = "err => unwrapFailed(msg, err)" -> Throw("Error")
          [] code = "err => Ok(err)" -> mkOk(a)
          [] code = "ok => Err(ok)" -> mkErr(a)
          [] code = "err => Err(${err.toString()})" ->
                IF IsNullish(a) THEN Throw("TypeError")
                ELSE Str("Err(" \o ToStr(a) \o ")")
          [] code = "ok => Ok(${ok.toString()})" ->
                IF IsNullish(a) THEN Throw("TypeError")
                ELSE Str("Ok(" \o ToStr(a) \o ")")
          [] code = "ok => f(clone(ok))" -> Apply(env, clone(a))
          [] code = "x => Ok(f(clone(x)))" -> mkOk(Apply(env, clone(a)))
          [] code = "x => fn.map(f => f(x))" ->
                Sum_map(env, Lambda("f => f(x)", a))
          [] code = "f => f(x)" -> Apply(a, env)
          [] code = "err => Some(Err(err))" -> mkSome(mkErr(a))
          [] code = "ok => ok.mapOr(None(), val => Some(Ok(val)))" ->
                Maybe_mapOr(a, mkNone, Lambda("val => Some(Ok(val))", 0))
          [] code = "val => Some(Ok(val))" -> mkSome(mkOk(a))
          [] code = "() => Ok(None())" -> mkOk(mkNone)
          [] code = "r => r.mapOrElse(err => Err(err), ok => Ok(Some(ok)))" ->
                Sum_mapOrElse(a, Lambda("err => Err(err)", 0),
                                 Lambda("ok => Ok(Some(ok))", 0))
          [] code = "ok => Ok(Some(ok))" -> mkOk(mkSome(a))
          [] code = "y => f(y).andThen(g)" ->
                Sum_andThen(Apply(env[1], a), env[2])
          [] code = "x => another.map(y => f(clone(x),clone(y)))" ->
                Sum_map(env[1],
                    Lambda("y => f(clone(x),clone(y))", <<env[2], a>>))
          [] code = "y => f(clone(x),clone(y))" ->
                Apply(env[1], <<clone(env[2]), clone(a)>>)
          [] code = "(x,y) => [x,y]" -> Arr(a)
          [] code = "() => { throw TypeError(msg) }" -> Throw("TypeError")
          [] code = "() => {throw Error(err)}" ->
                [t |-> "throw", v |-> "Error", msg |-> env]
          [] code = "clone" -> clone(a)
          [] code = "_ => on" -> env
          [] code = "y => y" -> a
          [] code = "_ => None()" -> mkNone
          [] code = "Some" -> mkSome(a)

(* ------------------------------------------------------------- the heap *)
Ref(i) == [t |-> "ref", v |-> i]
IsRef(a) == a.t = "ref"

\* What a call leaves: the heap after it and the value it returned or raised.
St(h, r) == [heap |-> h, res |-> r]

\* `new`: the object gets the next address.  When building its argument
\* raised, nothing is built and the raise goes on.
alloc(h, obj) ==
    IF IsThrow(obj) THEN St(h, obj) ELSE St(Append(h, obj), Ref(Len(h) + 1))

\* An object literal in the calling code is a new object on the heap.
store(h, a) == IF a.t = "object" THEN alloc(h, a) ELSE St(h, a)

\* clone-deep of a held value: a plain object is copied to a new address.
clone_mem(h, a) ==
    IF IsRef(a) /\ h[a.v].t = "object" THEN alloc(h, h[a.v]) ELSE St(h, a)

\* toEqual compares by content: the value with every reference followed.
RECURSIVE Deref(_, _)
Deref(h, a) ==
    CASE a.t = "ref" ->
            LET c == h[a.v]
            IN  IF c.t \in {"object", "mock"} THEN c
                ELSE [t |-> c.t, v |-> Deref(h, c.v)]
      [] a.t \in {"Ok", "Err", "Some", "_Some"} ->
            [t |-> a.t, v |-> Deref(h, a.v)]
      [] OTHER -> a

\* Option/Option.ts: const old = this.clone(); this.data = value;
\* return Some(old).
OptionTs_replace(h, s, value) ==
    LET old == clone_mem(h, h[s.v].v)
    IN  alloc([old.heap EXCEPT ![s.v].v = value], Some(old.res))

\* unnamed/part_013: the same with cloneInnerValue.
Data_replace(h, s, value) ==
    LET old == clone_mem(h, h[s.v].v)
    IN  alloc([old.heap EXCEPT ![s.v].v = value], Some(old.res))

Data_unsafe_insert(h, s, val) == St([h EXCEPT ![s.v].v = val], s)

\* A function of the calling code that writes to its argument.
writer == Lambda("v => { v.code = 0; return v }", 0)

\* Running a function that may write to the heap: a jest mock, held by
\* reference, notes the argument of each call and returns its fixed value.
Call(h, fn, a) ==
    IF IsRef(fn)
    THEN St([h EXCEPT ![fn.v].v.calls = Append(@, a)], h[fn.v].v.ret)
    ELSE IF fn = writer
         THEN IF IsRef(a) /\ h[a.v].t = "object"
              THEN St([h EXCEPT ![a.v].v = "changed"], a)
              ELSE St(h, a)
         ELSE St(h, Apply(fn, a))

\* jest.fn(() => ret), before its first call.
mock(ret) == [t |-> "mock", v |-> [calls |-> <<>>, ret |-> ret]]

\* Sum.either and Option.maybe with handlers that may be mocks.
either_mem_mut(h, r, ifErr, ifOk) ==
    LET l == Call(h, ifErr, r.v)
        k == Call(l.heap, ifOk, r.v)
    IN  IF r.t = "Err" THEN St(k.heap, l.res) ELSE k

either_mem(h, r, ifErr, ifOk) ==
    IF r.t = "Err" THEN Call(h, ifErr, r.v) ELSE Call(h, ifOk, r.v)

maybe_mem(h, o, ifNone, ifSome) ==
    IF o.t = "None" THEN Call(h, ifNone, Undefined) ELSE Call(h, ifSome, o.v)

\* Option/option.ts, the closure Option: the methods that take a thunk.
Maybe_unwrapOrElse_mut(h, o, ifNone) ==
    LET c == Call(h, ifNone, Undefined)
    IN  maybe_mem(c.heap, o, Lambda("() => ifNone", c.res), Lambda("clone", 0))

Maybe_unwrapOrElse(h, o, ifNone) == maybe_mem(h, o, ifNone, Lambda("clone", 0))

Maybe_mapOrElse_mem(h, o, ifNone, f) == maybe_mem(h, o, ifNone, toClone(f))

\* maybe(() => Err(ifNone()), x => Ok(clone(x)))
Maybe_okOrElse(h, o, ifNone) ==
    IF o.t = "None"
    THEN LET c == Call(h, ifNone, Undefined)
         IN  St(c.heap, IF IsThrow(c.res) THEN c.res ELSE mkErr(c.res))
    ELSE St(h, mkOk(clone(o.v)))

\* Result/Result.ts
Field_map(h, r, fn) ==
    IF Field_isErr(r) THEN St(h, Err(r.v))
    ELSE LET c == Call(h, fn, r.v)
         IN  St(c.heap, IF IsThrow(c.res) THEN c.res ELSE Ok(c.res))

Field_mapOr(h, r, defaultValue, fn) ==
    IF Field_isErr(r) THEN St(h, defaultValue) ELSE Call(h, fn, r.v)

Field_mapOrElse(h, r, defaultFn, fn) ==
    IF Field_isErr(r) THEN Call(h, defaultFn, r.v) ELSE Call(h, fn, r.v)

Field_mapErr(h, r, fn) ==
    IF Field_isOk(r) THEN St(h, Ok(r.v))
    ELSE LET c == Call(h, fn, r.v)
         IN  St(c.heap, IF IsThrow(c.res) THEN c.res ELSE Err(c.res))

Field_andThen(h, r, fn) ==
    LET c == clone_mem(h, r.v)
    IN  IF Field_isErr(r) THEN St(c.heap, Err(c.res))
        ELSE Call(c.heap, fn, c.res)

\* Option/option.ts, the classes _Some and _None
Variant_Some(a) ==
    IF IsNullish(a) THEN Throw("TypeError") ELSE [t |-> "_Some", v |-> a]
Variant_None == [t |-> "_None", v |-> 0]
Variant_isSome(o) == o.t = "_Some"
Variant_unwrap(o) == IF o.t = "_Some" THEN o.v ELSE Throw("TypeError")

Variant_map(h, o, fn) ==
    IF o.t = "_None" THEN St(h, Variant_None)
    ELSE LET c == Call(h, fn, o.v)
         IN  St(c.heap, IF IsThrow(c.res) THEN c.res ELSE Variant_Some(c.res))

Variant_mapOr(h, o, defaultVal, fn) ==
    IF o.t = "_None" THEN St(h, defaultVal) ELSE Call(h, fn, o.v)

Variant_mapOrElse(h, o, defaultFn, fn) ==
    IF o.t = "_None" THEN Call(h, defaultFn, Undefined) ELSE Call(h, fn, o.v)

(* ------------------------------------------------------------ the calls *)
\* The three shapes of a Result<Option<T>,E> over the drawn payloads.
ResultOfOption(a, b) == {mkOk(mkSome(a)), mkOk(mkNone), mkErr(b)}

Init ==
    /\ op = "init"
    /\ heap = <<>>
    /\ args \in [x : Values, e : Values]
    /\ out = [arg |-> Null, res |-> Null]

TransposeRoundTrip ==
    \E r \in ResultOfOption(args.x, args.e) :
        /\ op' = "Option.transpose(Result.transpose(x))"
        /\ out' = [arg |-> r, res |-> Maybe_transpose(Sum_transpose(r))]
        /\ UNCHANGED <<args, heap>>

SumTranspose ==
    \E r \in ResultOfOption(args.x, args.e) :
        /\ op' = "Sum.Result.transpose"
        /\ out' = [arg |-> r, res |-> Sum_transpose(r)]
        /\ UNCHANGED <<args, heap>>

MaybeTranspose ==
    \E o \in {mkSome(mkOk(args.x)), mkSome(mkErr(args.e)), mkNone} :
        /\ op' = "Maybe.Option.transpose"
        /\ out' = [arg |-> o, res |-> Maybe_transpose(o)]
        /\ UNCHANGED <<args, heap>>

OptionTsTranspose ==
    \E i \in 1..3 :
      LET o == <<Some(Err(args.e)), Some(Ok(args.x)), None>>[i] IN
        /\ op' = "OptionTs.Option.transpose"
        /\ out' = [arg |-> o, res |-> OptionTs_transpose(o)]
        /\ UNCHANGED <<args, heap>>

\* Ok(Some(x)) exists only for the x that Some accepts.
FieldTranspose ==
    \E r \in {Ok(o) : o \in {Some(args.x), None} \ {Throw("TypeError")}}
                \cup {Err(args.e)} :
        /\ op' = "Field.Result.transpose"
        /\ out' = [arg |-> r, res |-> Field_transpose(r)]
        /\ UNCHANGED <<args, heap>>

SomeCall ==
    /\ op' = "Some"
    /\ out' = [arg |-> args.x, res |-> Some(args.x)]
    /\ UNCHANGED <<args, heap>>

MkSomeCall ==
    /\ op' = "Option.mkSome"
    /\ out' = [arg |-> args.x, res |-> mkSome(args.x)]
    /\ UNCHANGED <<args, heap>>

MaybeIsSome ==
    \E c \in {"Some", "None"} :
        LET o == IF c = "Some" THEN mkSome(args.x) ELSE mkNone
        IN  /\ op' = "Maybe.isSome"
            /\ out' = [ctor |-> c, arg |-> o,
                       isSome |-> Maybe_isSome(o), isNone |-> Maybe_isNone(o)]
            /\ UNCHANGED <<args, heap>>

OptionTsIsSome ==
    \E c \in {"Some", "None"} :
        LET o == IF c = "Some" THEN Some(args.x) ELSE None
        IN  /\ ~IsThrow(o)
            /\ op' = "OptionTs.isSome"
            /\ out' = [ctor |-> c, arg |-> o,
                       isSome |-> OptionTs_isSome(o),
                       isNone |-> OptionTs_isNone(o)]
            /\ UNCHANGED <<args, heap>>

DataIsSome ==
    \E c \in {"Some", "None"} :
        LET o == IF c = "Some" THEN Some(args.x) ELSE None
        IN  /\ ~IsThrow(o)
            /\ op' = "Data.isSome"
            /\ out' = [ctor |-> c, arg |-> o,
                       isSome |-> Data_isSome(o), isNone |-> Data_isNone(o)]
            /\ UNCHANGED <<args, heap>>

SumIsOk ==
    \E r \in {mkOk(args.x), mkErr(args.e)} :
        /\ op' = "Sum.isOk"
        /\ out' = [arg |-> r, isOk |-> Sum_isOk(r), isErr |-> Sum_isErr(r)]
        /\ UNCHANGED <<args, heap>>

ClosureIsOk ==
    \E r \in {mkOk(args.x), mkErr(args.e)} :
        /\ op' = "Closure.isOk"
        /\ out' = [arg |-> r, isOk |-> Closure_isOk(r),
                   isErr |-> Closure_isErr(r)]
        /\ UNCHANGED <<args, heap>>

FieldIsOk ==
    \E r \in {Ok(args.x), Err(args.e)} :
        /\ op' = "Field.isOk"
        /\ out' = [arg |-> r, isOk |-> Field_isOk(r), isErr |-> Field_isErr(r)]
        /\ UNCHANGED <<args, heap>>

MaybeMapId ==
    \E o \in {mkSome(args.x), mkNone} :
        /\ op' = "Maybe.map(id)"
        /\ out' = [arg |-> o, res |-> Maybe_map(o, id)]
        /\ UNCHANGED <<args, heap>>

DataMapId ==
    \E o \in {Some(args.x), None} \ {Throw("TypeError")} :
        /\ op' = "Data.map(id)"
        /\ out' = [arg |-> o, res |-> Data_map(o, id)]
        /\ UNCHANGED <<args, heap>>

\* flatten on Some(x), Some(Some(x)), Some(None()) and None(), for the x a
\* Some may hold.
MaybeFlatten ==
    /\ ~IsNullish(args.x)
    /\ \E i \in 1..4 :
         LET o == <<mkSome(args.x), mkSome(mkSome(args.x)),
                    mkSome(mkNone), mkNone>>[i]
         IN  /\ op' = "Maybe.flatten"
             /\ out' = [arg |-> o, res |-> Maybe_flatten(o)]
             /\ UNCHANGED <<args, heap>>

OptionTsFlatten ==
    /\ ~IsNullish(args.x)
    /\ \E i \in 1..4 :
         LET o == <<Some(args.x), Some(Some(args.x)), Some(None), None>>[i]
         IN  /\ op' = "OptionTs.flatten"
             /\ out' = [arg |-> o, res |-> OptionTs_flatten(o)]
             /\ UNCHANGED <<args, heap>>

SumOkErr ==
    \E r \in {mkOk(args.x), mkErr(args.e)} :
        /\ op' = "Sum.ok"
        /\ out' = [arg |-> r, ok |-> Sum_ok(r), err |-> Sum_err(r)]
        /\ UNCHANGED <<args, heap>>

FieldOkErr ==
    \E r \in {Ok(args.x), Err(args.e)} :
        /\ op' = "Field.ok"
        /\ out' = [arg |-> r, ok |-> Field_ok(r), err |-> Field_err(r)]
        /\ UNCHANGED <<args, heap>>

\* The messages the test draws with fc.string().
Msgs == {"", "a"}

\* Some(x).expect(msg), None().expect(msg) and the same with unwrap().
MaybeExpect ==
    \E o \in {mkSome(args.x), mkNone}, msg \in Msgs :
        /\ op' = "Maybe.expect"
        /\ out' = [arg |-> o, msg |-> msg, expect |-> Maybe_expect(o, msg),
                   unwrap |-> Maybe_unwrap(o)]
        /\ UNCHANGED <<args, heap>>

\* Ok(x).toString() and Err(e).toString(), on Sum and with fields.
ResultToString ==
    \E r \in {mkOk(args.x), mkErr(args.e)} :
        /\ op' = "Result.toString"
        /\ out' = [arg |-> r, sum |-> Sum_toString(r),
                   field |-> Field_toString(r)]
        /\ UNCHANGED <<args, heap>>

\* Result.swap(r) and Result.swap(Result.swap(r)).
SumSwap ==
    \E r \in {mkOk(args.x), mkErr(args.e)} :
        /\ op' = "Result.swap"
        /\ out' = [arg |-> r, res |-> Sum_swap(r),
                   twice |-> Sum_swap(Sum_swap(r))]
        /\ UNCHANGED <<args, heap>>

\* unwrap() next to isNone() on an Option of Option/Option.ts.
OptionTsUnwrap ==
    \E c \in {"Some", "None"} :
        LET o == IF c = "Some" THEN Some(args.x) ELSE None
        IN  /\ ~IsThrow(o)
            /\ op' = "OptionTs.unwrap"
            /\ out' = [arg |-> o, isNone |-> OptionTs_isNone(o),
                       unwrap |-> OptionTs_unwrap(o)]
            /\ UNCHANGED <<args, heap>>

\* unwrap() and unwrapErr() next to isErr() and isOk() on a Result on Sum.
SumUnwrap ==
    \E r \in {mkOk(args.x), mkErr(args.e)} :
        /\ op' = "Sum.unwrap"
        /\ out' = [arg |-> r, isOk |-> Sum_isOk(r), isErr |-> Sum_isErr(r),
                   unwrap |-> Sum_unwrap(r), unwrapErr |-> Sum_unwrapErr(r)]
        /\ UNCHANGED <<args, heap>>

\* A function that raises whenever it is called.
thrower == Lambda("() => { throw TypeError(msg) }", 0)

\* map and andThen on an Err, mapErr on an Ok, of the Result on Sum.
SumSkipsFn ==
    \E m \in {"map", "mapErr", "andThen"} :
        LET r == IF m = "mapErr" THEN mkOk(args.x) ELSE mkErr(args.e)
        IN  /\ op' = "Sum." \o m
            /\ out' = [arg |-> r,
                       res |-> CASE m = "map" -> Sum_map(r, thrower)
                                 [] m = "mapErr" -> Sum_mapErr(r, thrower)
                                 [] m = "andThen" -> Sum_andThen(r, thrower)]
            /\ UNCHANGED <<args, heap>>

\* The same calls on the Result of Result/Result.ts.
FieldSkipsFn ==
    \E m \in {"map", "mapErr", "andThen"} :
        LET r == IF m = "mapErr" THEN Ok(args.x) ELSE Err(args.e)
        IN  /\ op' = "Field." \o m
            /\ out' = [arg |-> r,
                       res |-> CASE m = "map" -> Field_map(heap, r, thrower).res
                                 [] m = "mapErr" ->
                                        Field_mapErr(heap, r, thrower).res
                                 [] m = "andThen" ->
                                        Field_andThen(heap, r, thrower).res]
            /\ UNCHANGED <<args, heap>>

Next ==
    \/ TransposeRoundTrip
    \/ SumTranspose
    \/ MaybeTranspose
    \/ OptionTsTranspose
    \/ FieldTranspose
    \/ SomeCall
    \/ MkSomeCall
    \/ MaybeIsSome
    \/ OptionTsIsSome
    \/ DataIsSome
    \/ SumIsOk
    \/ ClosureIsOk
    \/ FieldIsOk
    \/ MaybeMapId
    \/ DataMapId
    \/ MaybeFlatten
    \/ OptionTsFlatten
    \/ SumOkErr
    \/ FieldOkErr
    \/ SumSkipsFn
    \/ FieldSkipsFn
    \/ MaybeExpect
    \/ ResultToString
    \/ SumSwap
    \/ OptionTsUnwrap
    \/ SumUnwrap

Spec == Init /\ [][Next]_vars

(* ------------------------------------------- the functor law of Option *)
Fns == {fcFunc(table) : table \in [LawValues -> LawValues]}

InitFunctor ==
    /\ op = "init"
    /\ heap = <<>>
    /\ args \in [x : LawValues, f : Fns, g : Fns]
    /\ out = [arg |-> Null, lhs |-> Null, rhs |-> Null]

\* x.map(f).map(g) against x.map(y => g(f(y)))
MaybeMapComposition ==
    \E o \in {mkSome(args.x), mkNone} :
        /\ op' = "Maybe.map composition"
        /\ out' = [arg |-> o,
                   lhs |-> Maybe_map(Maybe_map(o, args.f), args.g),
                   rhs |-> Maybe_map(o, Lambda("x => f(g(x))",
                                               <<args.g, args.f>>))]
        /\ UNCHANGED <<args, heap>>

\* A raise in x.map(f) ends the whole expression.
DataMapComposition ==
    \E o \in {Some(args.x), None} \ {Throw("TypeError")} :
        LET first == Data_map(o, args.f)
        IN  /\ op' = "Data.map composition"
            /\ out' = [arg |-> o,
                       lhs |-> IF IsThrow(first) THEN first
                               ELSE Data_map(first, args.g),
                       rhs |-> Data_map(o, Lambda("x => f(g(x))",
                                                  <<args.g, args.f>>))]
            /\ UNCHANGED <<args, heap>>

NextFunctor ==
    \/ MaybeMapComposition
    \/ DataMapComposition

SpecFunctor == InitFunctor /\ [][NextFunctor]_vars

(* --------------------------------------------- the monad law of Result *)
ResultsOf(S) == {mkOk(a) : a \in S} \cup {mkErr(a) : a \in S}

ResultFns == {fcFunc(table) : table \in [LawValues -> ResultsOf(LawValues)]}

InitMonad ==
    /\ op = "init"
    /\ heap = <<>>
    /\ args \in [x : ResultsOf(LawValues), f : ResultFns, g : ResultFns]
    /\ out = [arg |-> Null, lhs |-> Null, rhs |-> Null]

\* x.andThen(y => f(y).andThen(g)) against x.andThen(f).andThen(g)
SumAndThenAssociativity ==
    /\ op' = "Sum.andThen associativity"
    /\ out' = [arg |-> args.x,
               lhs |-> Sum_andThen(args.x, Lambda("y => f(y).andThen(g)",
                                                  <<args.f, args.g>>)),
               rhs |-> Sum_andThen(Sum_andThen(args.x, args.f), args.g)]
    /\ UNCHANGED <<args, heap>>

NextMonad == SumAndThenAssociativity

SpecMonad == InitMonad /\ [][NextMonad]_vars

(* --------------------------------------- the applicative law of Result *)
ResultsOfFn == {mkOk(fn) : fn \in Fns} \cup {mkErr(a) : a \in LawValues}

InitAp ==
    /\ op = "init"
    /\ heap = <<>>
    /\ args \in [u : ResultsOfFn, v : ResultsOfFn, w : ResultsOf(LawValues)]
    /\ out = [lhs |-> Null, rhs |-> Null]

\* w.ap(v.ap(u.ap(Ok(compose)))) against w.ap(v).ap(u)
SumApComposition ==
    /\ op' = "Sum.ap composition"
    /\ out' = [lhs |-> Sum_ap(args.w,
                              Sum_ap(args.v, Sum_ap(args.u, mkOk(compose)))),
               rhs |-> Sum_ap(Sum_ap(args.w, args.v), args.u)]
    /\ UNCHANGED <<args, heap>>

NextAp == SumApComposition

SpecAp == InitAp /\ [][NextAp]_vars

(* ------------------------------------------- zip, map2 and ap of Result *)
\* The functions of two arguments the map2 test draws; a call f(x, y) is
\* Apply(f, <<x, y>>).
Fn2s == {fcFunc(table) : table \in [LawValues \X LawValues -> {Null, Num(0)}]}

InitZip ==
    /\ op = "init"
    /\ heap = <<>>
    /\ args \in [a : ResultsOf(LawValues), b : ResultsOf(LawValues),
                  f : Fn2s, fn : Fns]
    /\ out = [a |-> Null, b |-> Null, res |-> Null]

SumZip ==
    /\ op' = "Sum.zip"
    /\ out' = [a |-> args.a, b |-> args.b, res |-> Sum_zip(args.a, args.b)]
    /\ UNCHANGED <<args, heap>>

SumMap2 ==
    /\ op' = "Sum.map2"
    /\ out' = [a |-> args.a, b |-> args.b,
               res |-> Sum_map2(args.a, args.b, args.f)]
    /\ UNCHANGED <<args, heap>>

\* The argument of ap is a Result of a function: Ok(fn), or the Err of b.
SumAp ==
    LET u == IF args.b.t = "Ok" THEN mkOk(args.fn) ELSE args.b
    IN  /\ op' = "Sum.ap"
        /\ out' = [a |-> args.a, b |-> u, res |-> Sum_ap(args.a, u)]
        /\ UNCHANGED <<args, heap>>

NextZip ==
    \/ SumZip
    \/ SumMap2
    \/ SumAp

SpecZip == InitZip /\ [][NextZip]_vars

(* ------------------------------------- calls on one instance, in a row *)
\* What the test reads from the instance after a call: isSome() and
\* unwrap(), or isOk() and unwrap() when it is a Result.
Seen(cls, h, s) ==
    LET o == IF IsRef(s) THEN h[s.v] ELSE s
    IN  CASE cls = "OptionTs" ->
                [isSome |-> OptionTs_isSome(o),
                 unwrap |-> Deref(h, OptionTs_unwrap(o))]
          [] cls = "Data" ->
                [isSome |-> Data_isSome(o), unwrap |-> Deref(h, Data_unwrap(o))]
          [] cls = "Maybe" ->
                [isSome |-> Maybe_isSome(o), unwrap |-> Maybe_unwrap(o)]
          [] cls = "Field" ->
                [isSome |-> Field_isOk(o), unwrap |-> Deref(h, Field_unwrap(o))]
          [] cls = "Variant" ->
                [isSome |-> Variant_isSome(o),
                 unwrap |-> Deref(h, Variant_unwrap(o))]

InitHeap ==
    /\ op = "init"
    /\ heap = <<>>
    /\ args \in [x : Values, y : Values]
    /\ out = [cls |-> "", ctor |-> "", s |-> Null, n |-> 0, born |-> FALSE,
              prev |-> Null, res |-> Null, raw |-> Null, seen |-> Null,
              calls |-> Null]

\* const s = Some(x) or const s = None(), with each of the Option classes.
NewOption ==
    /\ op = "init"
    /\ \E cls \in {"OptionTs", "Data", "Maybe", "Variant"},
          ctor \in {"Some", "None"} :
          LET p == store(<<>>, args.x)
              o == CASE cls = "Maybe" /\ ctor = "Some" ->
                          St(<<>>, mkSome(args.x))
                     [] cls = "Maybe" /\ ctor = "None" -> St(<<>>, mkNone)
                     [] cls = "Variant" /\ ctor = "Some" ->
                          St(p.heap, Variant_Some(p.res))
                     [] cls = "Variant" /\ ctor = "None" ->
                          St(<<>>, Variant_None)
                     [] cls \in {"OptionTs", "Data"} /\ ctor = "Some" ->
                          alloc(p.heap, Some(p.res))
                     [] cls \in {"OptionTs", "Data"} /\ ctor = "None" ->
                          alloc(<<>>, None)
          IN  /\ ~IsThrow(o.res)
              /\ op' = "new"
              /\ heap' = o.heap
              /\ out' = [cls |-> cls, ctor |-> ctor, s |-> o.res, n |-> 0,
                         born |-> Seen(cls, o.heap, o.res).isSome,
                         prev |-> Deref(o.heap, o.res), res |-> Null,
                         raw |-> Null, seen |-> Seen(cls, o.heap, o.res),
                         calls |-> Null]
              /\ UNCHANGED args

\* const r = new Ok(x) or const r = new Err(x)
NewResult ==
    /\ op = "init"
    /\ \E ctor \in {"Ok", "Err"} :
          LET p == store(<<>>, args.x)
              r == IF ctor = "Ok" THEN Ok(p.res) ELSE Err(p.res)
          IN  /\ op' = "new"
              /\ heap' = p.heap
              /\ out' = [cls |-> "Field", ctor |-> ctor, s |-> r, n |-> 0,
                         born |-> Field_isOk(r), prev |-> Deref(p.heap, r),
                         res |-> Null, raw |-> Null,
                         seen |-> Seen("Field", p.heap, r), calls |-> Null]
              /\ UNCHANGED args

\* s.replace(y)
Replace ==
    /\ op # "init"
    /\ out.cls \in {"OptionTs", "Data", "Maybe"}
    /\ out.n < MaxOps
    /\ LET y == store(heap, args.y)
           r == CASE out.cls = "OptionTs" ->
                        OptionTs_replace(y.heap, out.s, y.res)
                  [] out.cls = "Data" -> Data_replace(y.heap, out.s, y.res)
                  [] out.cls = "Maybe" -> St(heap, Maybe_replace(out.s, args.y))
       IN  /\ op' = "replace"
           /\ heap' = r.heap
           /\ out' = [out EXCEPT !.n = @ + 1, !.prev = Deref(heap, out.s),
                                 !.res = Deref(r.heap, r.res),
                                 !.raw = r.res,
                                 !.seen = Seen(out.cls, r.heap, out.s)]
           /\ UNCHANGED args

\* s.unsafe_insert(y)
UnsafeInsert ==
    /\ op # "init"
    /\ out.cls = "Data"
    /\ out.n < MaxOps
    /\ LET y == store(heap, args.y)
           r == Data_unsafe_insert(y.heap, out.s, y.res)
       IN  /\ op' = "unsafe_insert"
           /\ heap' = r.heap
           /\ out' = [out EXCEPT !.n = @ + 1, !.prev = Deref(heap, out.s),
                                 !.res = Deref(r.heap, r.res),
                                 !.raw = r.res,
                                 !.seen = Seen(out.cls, r.heap, out.s)]
           /\ UNCHANGED args

\* const v = s.unwrap(), s.unwrapOr(y) or s.unwrapOrElse(() => y)
Unwrap ==
    /\ op # "init"
    /\ out.cls \in {"OptionTs", "Field"}
    /\ out.n < MaxOps
    /\ \E m \in {"unwrap", "unwrapOr", "unwrapOrElse"} :
         LET y == store(heap, args.y)
             lazy == Lambda("() => ifNone", y.res)
             o == IF IsRef(out.s) THEN heap[out.s.v] ELSE out.s
             v == CASE out.cls = "OptionTs" /\ m = "unwrap" -> OptionTs_unwrap(o)
                    [] out.cls = "OptionTs" /\ m = "unwrapOr" ->
                          OptionTs_unwrapOr(o, y.res)
                    [] out.cls = "OptionTs" /\ m = "unwrapOrElse" ->
                          OptionTs_unwrapOrElse(o, lazy)
                    [] out.cls = "Field" /\ m = "unwrap" -> Field_unwrap(o)
                    [] out.cls = "Field" /\ m = "unwrapOr" ->
                          Field_unwrapOr(o, y.res)
                    [] out.cls = "Field" /\ m = "unwrapOrElse" ->
                          Field_unwrapOrElse(o, lazy)
             h == IF m = "unwrap" THEN heap ELSE y.heap
         IN  /\ op' = m
             /\ heap' = h
             /\ out' = [out EXCEPT !.n = @ + 1, !.prev = Deref(heap, out.s),
                                   !.res = Deref(h, v), !.raw = v,
                                   !.seen = Seen(out.cls, h, out.s)]
             /\ UNCHANGED args

\* v.code = 0: the caller writes to the object the call handed back.
WriteToReturned ==
    /\ op \in {"unwrap", "unwrapOr", "unwrapOrElse"}
    /\ IsRef(out.raw)
    /\ heap[out.raw.v].t = "object"
    /\ op' = "returned value changed"
    /\ heap' = [heap EXCEPT ![out.raw.v].v = "changed"]
    /\ out' = [out EXCEPT !.seen = Seen(out.cls, heap', out.s)]
    /\ UNCHANGED args

\* s.map(fn), s.mapOr(y, fn), s.mapOrElse(alt, fn) and s.mapErr(fn) with a
\* function that writes to its argument.
MapWriter ==
    /\ op # "init"
    /\ out.cls \in {"Field", "Variant"}
    /\ out.n < MaxOps
    /\ \E m \in {"map", "mapOr", "mapOrElse", "mapErr"} :
         LET y == store(heap, args.y)
             lazy == Lambda("() => ifNone", y.res)
             r == CASE out.cls = "Field" /\ m = "map" ->
                          Field_map(heap, out.s, writer)
                    [] out.cls = "Field" /\ m = "mapOr" ->
                          Field_mapOr(y.heap, out.s, y.res, writer)
                    [] out.cls = "Field" /\ m = "mapOrElse" ->
                          Field_mapOrElse(heap, out.s, writer, writer)
                    [] out.cls = "Field" /\ m = "mapErr" ->
                          Field_mapErr(heap, out.s, writer)
                    [] out.cls = "Variant" /\ m = "map" ->
                          Variant_map(heap, out.s, writer)
                    [] out.cls = "Variant" /\ m = "mapOr" ->
                          Variant_mapOr(y.heap, out.s, y.res, writer)
                    [] out.cls = "Variant" /\ m = "mapOrElse" ->
                          Variant_mapOrElse(y.heap, out.s, lazy, writer)
         IN  /\ m = "mapErr" => out.cls = "Field"
             /\ op' = m
             /\ heap' = r.heap
             /\ out' = [out EXCEPT !.n = @ + 1, !.prev = Deref(heap, out.s),
                                   !.res = Deref(r.heap, r.res), !.raw = r.res,
                                   !.seen = Seen(out.cls, r.heap, out.s)]
             /\ UNCHANGED args

\* Ok(x).either(f, g), Err(x).either(f, g), Some(x).maybe(f, g) and
\* None().maybe(f, g), f and g being two new mocks.
Eliminate ==
    /\ op = "init"
    /\ \E i \in 1..4 :
         LET s == <<mkOk(args.x), mkErr(args.x), mkSome(args.x), mkNone>>[i]
             f == alloc(<<>>, mock(Str("f")))
             g == alloc(f.heap, mock(Str("g")))
             r == IF i <= 2 THEN either_mem(g.heap, s, f.res, g.res)
                  ELSE maybe_mem(g.heap, s, f.res, g.res)
         IN  /\ op' = IF i <= 2 THEN "either" ELSE "maybe"
             /\ heap' = r.heap
             /\ out' = [cls |-> IF i <= 2 THEN "Sum" ELSE "Maybe",
                        ctor |-> s.t, s |-> s, n |-> 1, born |-> i \in {1, 3},
                        prev |-> s, res |-> Deref(r.heap, r.res),
                        raw |-> r.res,
                        seen |-> IF i <= 2 THEN Null
                                 ELSE Seen("Maybe", r.heap, s),
                        calls |-> [f |-> [k \in DOMAIN r.heap[f.res.v].v.calls |->
                                     Deref(r.heap, r.heap[f.res.v].v.calls[k])],
                                   g |-> [k \in DOMAIN r.heap[g.res.v].v.calls |->
                                     Deref(r.heap, r.heap[g.res.v].v.calls[k])]]]
             /\ UNCHANGED args

\* Some(x) or None() with a thunk t that notes its calls and returns y.
Fallback ==
    /\ op = "init"
    /\ \E s \in {mkSome(args.x), mkNone},
          m \in {"unwrapOrElse", "mapOrElse", "okOrElse"} :
         LET t == alloc(<<>>, mock(args.y))
             r == CASE m = "unwrapOrElse" -> Maybe_unwrapOrElse(t.heap, s, t.res)
                    [] m = "mapOrElse" ->
                           Maybe_mapOrElse_mem(t.heap, s, t.res, id)
                    [] m = "okOrElse" -> Maybe_okOrElse(t.heap, s, t.res)
         IN  /\ op' = "Maybe." \o m
             /\ heap' = r.heap
             /\ out' = [cls |-> "Maybe", ctor |-> s.t, s |-> s, n |-> 1,
                        born |-> s.t = "Some", prev |-> s,
                        res |-> Deref(r.heap, r.res), raw |-> r.res,
                        seen |-> Seen("Maybe", r.heap, s),
                        calls |-> [f |-> r.heap[t.res.v].v.calls, g |-> <<>>]]
             /\ UNCHANGED args

NextHeap ==
    \/ NewOption
    \/ NewResult
    \/ Replace
    \/ UnsafeInsert
    \/ Unwrap
    \/ WriteToReturned
    \/ MapWriter
    \/ Eliminate
    \/ Fallback

SpecHeap == InitHeap /\ [][NextHeap]_vars

(* ---------------------------------------------------------------- Vector *)
\* A Vector is the cell heap[1], Arr(s); the element at index i is s[i + 1].
\* A method takes and returns [this, res, swaps]: the elements, what the
\* method returns or raises, and the index pairs handed to swap so far.
IsSafeInteger(a) == a.t = "number"

Vector_checkIndex(this, index) ==
    ~(~IsSafeInteger(index) \/ index.v < 0 \/ index.v > Len(this))

\* this[i] = val; writing at index length appends.
setAt(this, i, val) ==
    IF i = Len(this) THEN Append(this, val) ELSE [this EXCEPT ![i + 1] = val]

getAt(this, i) == IF i < Len(this) THEN this[i + 1] ELSE Undefined

Vector_swap_mut(st, a, b) ==
    [st EXCEPT !.this = setAt(st.this, a.v, getAt(st.this, b.v)),
               !.swaps = Append(@, <<a.v, b.v>>)]

Vector_swap(st, a, b) ==
    IF Vector_checkIndex(st.this, a) /\ Vector_checkIndex(st.this, b)
    THEN [st EXCEPT !.this = setAt(setAt(st.this, a.v, getAt(st.this, b.v)),
                                   b.v, getAt(st.this, a.v)),
                    !.swaps = Append(@, <<a.v, b.v>>)]
    ELSE [st EXCEPT !.res = Throw("RangeError"),
                    !.swaps = Append(@, <<a.v, b.v>>)]

\* for (let i = lo; i < hi; i++) this.swap(i, off + i)
RECURSIVE forSwap(_, _, _, _)
forSwap(st, i, hi, off) ==
    IF i >= hi \/ IsThrow(st.res) THEN st
    ELSE forSwap(Vector_swap(st, Num(i), Num(off + i)), i + 1, hi, off)

Vector_rotateLeft(this, mid) ==
    LET st == [this |-> this, res |-> Ref(1), swaps |-> <<>>]
    IN  IF ~IsSafeInteger(mid) \/ mid.v < 0 \/ mid.v > Len(this)
        THEN [st EXCEPT !.res = Throw("RangeError")]
        ELSE LET k == Len(this) - mid.v
             IN  forSwap(st, 0, k, mid.v)

Vector_rotateRight(this, k) ==
    LET st == [this |-> this, res |-> Ref(1), swaps |-> <<>>]
    IN  IF ~IsSafeInteger(k) \/ k.v < 0 \/ k.v > Len(this)
        THEN [st EXCEPT !.res = Throw("RangeError")]
        ELSE LET t == Len(this) - k.v
             IN  forSwap(forSwap(st, 0, k.v, t), k.v, t, k.v)

\* while (this.pop()) {}
RECURSIVE Vector_clear(_)
Vector_clear(this) ==
    IF this = <<>> THEN this
    ELSE LET x == this[Len(this)]
             rest == SubSeq(this, 1, Len(this) - 1)
         IN  IF ToBoolean(x) THEN Vector_clear(rest) ELSE rest

\* The elements and the arguments of the tests, and some outside them.
VecElems == {Num(n) : n \in 0..MaxNum} \cup {Str("a"), Str("b")}
VecArgs == {Num(n) : n \in -1..(MaxVecLen + 1)} \cup {Undefined}

\* A Vector that holds the elements s.
InitVector ==
    /\ op = "new Vector"
    /\ \E n \in 0..MaxVecLen : \E s \in [1..n -> VecElems] :
         /\ heap = <<Arr(s)>>
         /\ args = [v |-> s]
    /\ out = [before |-> <<>>, arg |-> Null, res |-> Null, swaps |-> <<>>]

RotateLeft ==
    \E mid \in VecArgs :
        LET r == Vector_rotateLeft(heap[1].v, mid)
        IN  /\ op' = "rotateLeft"
            /\ heap' = <<Arr(r.this)>>
            /\ out' = [before |-> heap[1].v, arg |-> mid, res |-> r.res,
                       swaps |-> r.swaps]
            /\ UNCHANGED args

RotateRight ==
    \E k \in VecArgs :
        LET r == Vector_rotateRight(heap[1].v, k)
        IN  /\ op' = "rotateRight"
            /\ heap' = <<Arr(r.this)>>
            /\ out' = [before |-> heap[1].v, arg |-> k, res |-> r.res,
                       swaps |-> r.swaps]
            /\ UNCHANGED args

Clear ==
    /\ op' = "clear"
    /\ heap' = <<Arr(Vector_clear(heap[1].v))>>
    /\ out' = [before |-> heap[1].v, arg |-> Null, res |-> Undefined,
               swaps |-> <<>>]
    /\ UNCHANGED args

NextVector ==
    \/ RotateLeft
    \/ RotateRight
    \/ Clear

SpecVector == InitVector /\ [][NextVector]_vars

(* ---------------------------------------------------------------- ranges *)
\* The fields #start, #end and #inclusive. The bounds are integers, which
\* Math.round returns as they are and Number.isNaN rejects none of.
RangeBase(start, end, inclusive) ==
    [t |-> "RangeBase",
     v |-> [start |-> start,
            end |-> IF inclusive THEN end + 1 ELSE end,
            inclusive |-> inclusive]]

\* super(start, end, true); integers are finite.
RangeInclusiveExpr(start, end) == RangeBase(start, end, TRUE)

RangeBase_contains(this, item) ==
    IF this.v.inclusive
    THEN this.v.start <= item /\ item <= this.v.end
    ELSE this.v.start <= item /\ item < this.v.end

RangeNums == (0 - 1)..MaxRange

\* new RangeInclusiveExpr(start, end)
InitRange ==
    /\ op = "new RangeInclusiveExpr"
    /\ args \in [start : RangeNums, end : RangeNums]
    /\ heap = <<RangeInclusiveExpr(args.start, args.end)>>
    /\ out = [item |-> 0, res |-> FALSE]

Contains ==
    \E item \in (0 - 2)..(MaxRange + 2) :
        /\ op' = "contains"
        /\ out' = [item |-> item, res |-> RangeBase_contains(heap[1], item)]
        /\ UNCHANGED <<args, heap>>

NextRange ==
    \/ Contains

SpecRange == InitRange /\ [][NextRange]_vars

(* --------------------------------------------------------------- claims *)

\* C1: for every x of type Result<Option<T>,E>, that is Ok(Some(v)),
\* Ok(None()) and Err(e), Option.transpose(Result.transpose(x)) equals x.
C1_TransposeIsomorphism ==
    op = "Option.transpose(Result.transpose(x))" => out.res = out.arg

C1_Witness ==
    /\ op = "Option.transpose(Result.transpose(x))"
    /\ out.arg = mkOk(mkNone)
    /\ out.res = mkOk(mkNone)

\* C2: Option's transpose maps Some(Ok(x)) to Ok(Some(x)), Some(Err(e)) to
\* Err(e) and None() to Ok(None()), for every x and e, and none of the three
\* cases raises.
C2_OptionTranspose ==
    /\ op = "Maybe.Option.transpose" =>
          /\ ~IsThrow(out.res)
          /\ out.arg.t = "None" => out.res = mkOk(mkNone)
          /\ out.arg.t = "Some" /\ out.arg.v.t = "Ok" =>
                out.res = mkOk(mkSome(out.arg.v.v))
          /\ out.arg.t = "Some" /\ out.arg.v.t = "Err" =>
                out.res = mkErr(out.arg.v.v)
    /\ op = "OptionTs.Option.transpose" =>
          /\ ~IsThrow(out.res)
          /\ out.arg = None => out.res = Ok(None)
          /\ out.arg.v.t = "Ok" =>
                out.res = Ok([t |-> "Option", v |-> out.arg.v.v])
          /\ out.arg.v.t = "Err" => out.res = Err(out.arg.v.v)

\* C3: Result's transpose maps Ok(Some(x)) to Some(Ok(x)), Ok(None()) to
\* None() and Err(e) to Some(Err(e)), for every x that Some can hold (0, false
\* and "" included) and every e.
C3_ResultTranspose ==
    /\ op = "Sum.Result.transpose" =>
          /\ out.arg = mkOk(mkNone) => out.res = mkNone
          /\ out.arg.t = "Ok" /\ out.arg.v.t = "Some" =>
                out.res = mkSome(mkOk(out.arg.v.v))
          /\ out.arg.t = "Err" => out.res = mkSome(mkErr(out.arg.v))
    /\ op = "Field.Result.transpose" =>
          /\ out.arg = Ok(None) => out.res = None
          /\ out.arg.t = "Ok" /\ out.arg # Ok(None) =>
                out.res = [t |-> "Option", v |-> Ok(out.arg.v.v)]
          /\ out.arg.t = "Err" =>
                out.res = [t |-> "Option", v |-> Err(out.arg.v)]

\* C4: constructing Some(x) with x null or undefined always fails and yields
\* no Option; for every other x it returns an Option wrapping x.
C4_SomeRejectsNullish ==
    /\ op = "Some" =>
          IF IsNullish(out.arg) THEN IsThrow(out.res)
          ELSE out.res = [t |-> "Option", v |-> out.arg]
    /\ op = "Option.mkSome" =>
          IF IsNullish(out.arg) THEN IsThrow(out.res)
          ELSE out.res = [t |-> "Some", v |-> out.arg]

\* C5: for every Option exactly one of isSome() and isNone() is true;
\* Some(x).isSome() is true for every x that Some accepts (0, false and ""
\* included) and None().isSome() is false.
C5_IsSomeIsNone ==
    op \in {"Maybe.isSome", "OptionTs.isSome", "Data.isSome"} =>
        /\ out.isSome # out.isNone
        /\ out.ctor = "Some" => out.isSome
        /\ out.ctor = "None" => ~out.isSome

\* C6: for every Result exactly one of isOk() and isErr() is true:
\* Ok(x).isOk() and Err(e).isErr() are true, Ok(x).isErr() and Err(e).isOk()
\* are false, for all payloads (null and undefined included).
C6_IsOkIsErr ==
    op \in {"Sum.isOk", "Closure.isOk", "Field.isOk"} =>
        /\ out.isOk # out.isErr
        /\ out.arg.t = "Ok" => out.isOk /\ ~out.isErr
        /\ out.arg.t = "Err" => out.isErr /\ ~out.isOk

\* C7: functor identity for Option: for None() and for Some(v) with any v
\* that Some accepts, x.map(v => v) equals x.
C7_MapIdentity ==
    op \in {"Maybe.map(id)", "Data.map(id)"} => out.res = out.arg

C7_Witness ==
    /\ op = "Data.map(id)"
    /\ out.arg = [t |-> "Option", v |-> Num(0)]
    /\ out.res = [t |-> "Option", v |-> Num(0)]

\* C8: functor composition for Option: for every Option x and all functions
\* f and g, which may return null and undefined, x.map(f).map(g) equals
\* x.map(v => g(f(v))).
C8_MapComposition ==
    op \in {"Maybe.map composition", "Data.map composition"} =>
        out.lhs = out.rhs

\* C9: monad associativity for Result: x.andThen(y => f(y).andThen(g)) equals
\* x.andThen(f).andThen(g) for every x and all f, g that return Ok or Err;
\* when x is Err(e) both sides equal Err(e).
C9_AndThenAssociativity ==
    op = "Sum.andThen associativity" =>
        /\ out.lhs = out.rhs
        /\ out.arg.t = "Err" => out.lhs = out.arg /\ out.rhs = out.arg

C9_Witness ==
    /\ op = "Sum.andThen associativity"
    /\ out.arg.t = "Ok"
    /\ Apply(args.f, out.arg.v).t = "Ok"
    /\ out.lhs = Apply(args.g, Apply(args.f, out.arg.v).v)

\* C10: applicative composition for Result: w.ap(v.ap(u.ap(Ok(compose))))
\* equals w.ap(v).ap(u) for all eight Ok/Err combinations of u, v and w, also
\* when their Err payloads differ.
C10_ApComposition ==
    op = "Sum.ap composition" => out.lhs = out.rhs

C10_Witness ==
    /\ op = "Sum.ap composition"
    /\ args.w.t = "Ok" /\ args.v.t = "Err" /\ args.u.t = "Err"
    /\ args.u.v # args.v.v
    /\ out.lhs = args.v

\* C11: a.zip(b), a.map2(b, f) and a.ap(b) return the receiver's Err(e1)
\* whenever a is Err(e1), also when b is Err(e2) with e2 # e1; they return
\* Err(e2) when a is Ok and b is Err(e2); when both are Ok the result is Ok
\* of the pair [x, y], of f(x, y), or of the function of b applied to x.
C11_FirstErrWins ==
    op \in {"Sum.zip", "Sum.map2", "Sum.ap"} =>
        /\ out.a.t = "Err" => out.res = out.a
        /\ out.a.t = "Ok" /\ out.b.t = "Err" => out.res = mkErr(out.b.v)
        /\ out.a.t = "Ok" /\ out.b.t = "Ok" =>
              /\ op = "Sum.zip" => out.res = mkOk(Arr(<<out.a.v, out.b.v>>))
              /\ op = "Sum.map2" =>
                    out.res = mkOk(args.f.v.env[<<out.a.v, out.b.v>>])
              /\ op = "Sum.ap" => out.res = mkOk(out.b.v.v.env[out.a.v])

C11_Witness ==
    /\ op = "Sum.zip"
    /\ out.a.t = "Err" /\ out.b.t = "Err" /\ out.a.v # out.b.v
    /\ out.res = out.a

\* C12: for an Option s built as Some(a) and any non-null b, s.replace(b)
\* returns an Option equal to Some(a), and afterwards the same instance holds
\* b: s.unwrap() equals b.
C12_ReplaceOnSome ==
    /\ op = "replace" /\ out.n = 1 /\ out.ctor = "Some"
    /\ ~IsNullish(args.x) /\ ~IsNullish(args.y)
    =>
        /\ out.res = out.prev
        /\ out.seen.unwrap = args.y

\* C13: replace(v) on a None() Option is a no-op for every v: it returns
\* None(), raises nothing, and the receiver is still None afterwards and does
\* not hold v.
C13_ReplaceOnNone ==
    op = "replace" /\ out.n = 1 /\ out.ctor = "None" =>
        /\ ~IsThrow(out.res)
        /\ out.res = out.prev
        /\ Deref(heap, out.s) = out.prev
        /\ ~out.seen.isSome

\* C14: an Option instance never changes variant: after any sequence of calls
\* on it, isSome() on that instance is what it was at construction.
C14_VariantIsStable ==
    op # "init" /\ out.cls \in {"OptionTs", "Data", "Maybe"} =>
        out.seen.isSome = out.born

\* C15: values handed back are copies: after the caller changes the value
\* that unwrap(), unwrapOr(d) or unwrapOrElse(f) returned, the wrapper holds
\* what it held before, and a later unwrap() returns contents equal to it.
C15_ReturnsCopies ==
    /\ op = "returned value changed"
    /\ out.prev.t \in {"Option", "Ok"} /\ out.prev.v.t = "object"
    =>
        /\ Deref(heap, out.s) = out.prev
        /\ out.seen.unwrap = out.prev.v

\* C16: caller-supplied functions receive copies: when the function passed
\* to map, mapOr, mapOrElse or mapErr writes to its argument, the receiver
\* still holds a value equal to the one it held before the call.
C16_FunctionsGetCopies ==
    op \in {"map", "mapOr", "mapOrElse", "mapErr"} =>
        Deref(heap, out.s) = out.prev

\* C17: flatten on flat input is the identity: for every x that is not an
\* Option, flatten(Some(x)) equals Some(x); and flatten(Some(Some(x))) is
\* Some(x), flatten(Some(None())) is None(), flatten(None()) is None().
C17_Flatten ==
    /\ op = "Maybe.flatten" =>
          out.res = IF out.arg = mkNone THEN mkNone
                    ELSE IF out.arg.v.t \in {"Some", "None"} THEN out.arg.v
                    ELSE out.arg
    /\ op = "OptionTs.flatten" =>
          out.res = IF out.arg = None THEN None
                    ELSE IF IsOption(out.arg.v) THEN out.arg.v
                    ELSE out.arg

\* C18: conversion from Result to Option is total: for every payload x and
\* e, null and undefined included, Ok(x).ok() is Some(x), Err(e).ok() is
\* None(), Ok(x).err() is None() and Err(e).err() is Some(e).
C18_OkErrTotal ==
    /\ op = "Sum.ok" =>
          /\ out.arg.t = "Ok" =>
                out.ok = [t |-> "Some", v |-> out.arg.v] /\ out.err = mkNone
          /\ out.arg.t = "Err" =>
                out.ok = mkNone /\ out.err = [t |-> "Some", v |-> out.arg.v]
    /\ op = "Field.ok" =>
          /\ out.arg.t = "Ok" =>
                out.ok = [t |-> "Option", v |-> out.arg.v] /\ out.err = None
          /\ out.arg.t = "Err" =>
                out.ok = None /\ out.err = [t |-> "Option", v |-> out.arg.v]

\* C19: the eliminator calls exactly one of its two handlers, exactly once,
\* on the payload of the active variant, and returns what that handler
\* returned: Ok(x).either(f, g) is g(x) without a call of f, Err(e).either(f,
\* g) is f(e) without a call of g; Some(x).maybe(n, s) is s(x) and
\* None().maybe(n, s) is n().
C19_OneHandlerOnce ==
    op \in {"either", "maybe"} =>
        /\ out.s.t \in {"Ok", "Some"} =>
              /\ out.calls = [f |-> <<>>, g |-> <<out.prev.v>>]
              /\ out.res = Str("g")
        /\ out.s.t = "Err" =>
              /\ out.calls = [f |-> <<out.prev.v>>, g |-> <<>>]
              /\ out.res = Str("f")
        /\ out.s.t = "None" =>
              /\ Len(out.calls.f) = 1 /\ out.calls.g = <<>>
              /\ out.res = Str("f")

C19_Witness ==
    /\ op = "either"
    /\ out.s.t = "Ok"
    /\ out.prev.v = Obj("code")
    /\ out.calls.g = <<Obj("code")>>
    /\ out.res = Str("g")

(* C20: Err(e).map(f) and Err(e).andThen(f) return Err(e), and             *)
(* Ok(x).mapErr(f) returns Ok(x), without calling f: with an f that raises *)
(* whenever it is called, each of the three calls returns its receiver,    *)
(* for the Result on Sum and for the Result of Result/Result.ts.           *)
C20_SkippedBranchNeverCallsFn ==
    op \in {"Sum.map", "Sum.mapErr", "Sum.andThen",
            "Field.map", "Field.mapErr", "Field.andThen"}
        => /\ ~IsThrow(out.res)
           /\ out.res = out.arg

C20_Witness ==
    /\ op = "Sum.mapErr"
    /\ out.arg = mkOk(Obj("code"))
    /\ out.res = mkOk(Obj("code"))

(* C21: the fallback thunk is lazy. On Some(x), unwrapOrElse(t),           *)
(* mapOrElse(t, f) and okOrElse(t) never call t and return x, f(x) and      *)
(* Ok(x); on None() each calls t exactly once and returns t(), t() and      *)
(* Err(t()). Here f is the identity and t returns y.                        *)
C21_ThunkIsLazy ==
    op \in {"Maybe.unwrapOrElse", "Maybe.mapOrElse", "Maybe.okOrElse"} =>
        IF out.prev.t = "Some"
        THEN /\ out.calls.f = <<>>
             /\ out.res = IF op = "Maybe.okOrElse" THEN mkOk(args.x) ELSE args.x
        ELSE /\ Len(out.calls.f) = 1
             /\ out.res = IF op = "Maybe.okOrElse" THEN mkErr(args.y) ELSE args.y

C21_Witness ==
    /\ op = "Maybe.okOrElse"
    /\ out.prev = mkNone
    /\ Len(out.calls.f) = 1
    /\ out.res = mkErr(Obj("code"))

(* C22: on None(), unwrap() raises its fixed TypeError and expect(msg)     *)
(* raises an Error whose message is msg, a different kind of error; on      *)
(* Some(x) both return x and do not raise.                                  *)
C22_UnwrapAndExpect ==
    op = "Maybe.expect" =>
        IF out.arg = mkNone
        THEN /\ out.unwrap = Throw("TypeError")
             /\ IsThrow(out.expect)
             /\ out.expect.v = "Error"
             /\ out.expect.v # out.unwrap.v
             /\ out.expect.msg = out.msg
        ELSE /\ out.unwrap = out.arg.v
             /\ out.expect = out.arg.v

C22_Witness ==
    /\ op = "Maybe.expect"
    /\ out.arg = mkNone
    /\ out.msg = "a"
    /\ out.expect = [t |-> "throw", v |-> "Error", msg |-> "a"]
    /\ out.unwrap = Throw("TypeError")

(* C23: toString is total on Result: for every payload, null and          *)
(* undefined included, Ok(x).toString() is "Ok(" + String(x) + ")" and      *)
(* Err(e).toString() is "Err(" + String(e) + ")", and neither raises.       *)
C23_ToStringTotal ==
    op = "Result.toString" =>
        LET text == Str(out.arg.t \o "(" \o ToStr(out.arg.v) \o ")")
        IN  /\ out.sum = text
            /\ out.field = text

(* C24: Result.swap turns Ok(x) into Err(x) and Err(e) into Ok(e), for    *)
(* every payload, and swapping twice gives the Result back.                 *)
C24_SwapInvolution ==
    op = "Result.swap" =>
        /\ out.res = IF out.arg.t = "Ok" THEN mkErr(out.arg.v)
                      ELSE mkOk(out.arg.v)
        /\ out.twice = out.arg

C24_Witness ==
    /\ op = "Result.swap"
    /\ out.arg = mkErr(Null)
    /\ out.res = mkOk(Null)
    /\ out.twice = mkErr(Null)

\* The argument of a rotation is one the method accepts.
Accepted ==
    /\ IsSafeInteger(out.arg)
    /\ 0 <= out.arg.v
    /\ out.arg.v <= Len(out.before)

(* C25: for 0 <= mid <= n, rotateLeft(mid) leaves the left rotation by    *)
(* mid: afterwards v[i] is the old v[(i + mid) mod n] for every index i.    *)
C25_RotateLeft ==
    (op = "rotateLeft" /\ Accepted) =>
        LET n == Len(out.before)
        IN  /\ Len(heap[1].v) = n
            /\ \A i \in 0..(n - 1) :
                  heap[1].v[i + 1] = out.before[((i + out.arg.v) % n) + 1]

(* C26: for 0 <= k <= n, rotateRight(k) leaves the right rotation by k:   *)
(* afterwards v[(i + k) mod n] is the old v[i] for every index i.           *)
C26_RotateRight ==
    (op = "rotateRight" /\ Accepted) =>
        LET n == Len(out.before)
        IN  /\ Len(heap[1].v) = n
            /\ \A i \in 0..(n - 1) :
                  heap[1].v[((i + out.arg.v) % n) + 1] = out.before[i + 1]

(* C27: after clear() the Vector has length 0, whatever it held.           *)
C27_ClearEmpties ==
    op = "clear" => Len(heap[1].v) = 0

\* How many times e occurs in s.
Count(s, e) == Cardinality({i \in DOMAIN s : s[i] = e})

(* C30: rotateLeft and rotateRight only permute. For an accepted argument  *)
(* the Vector keeps its length and its multiset of elements, and every     *)
(* swap uses indices strictly below the length; for any other argument the *)
(* call raises RangeError and the Vector is unchanged.                     *)
C30_RotationsPermute ==
    op \in {"rotateLeft", "rotateRight"} =>
        IF Accepted
        THEN /\ out.res = Ref(1)
             /\ Len(heap[1].v) = Len(out.before)
             /\ \A e \in VecElems \cup {Undefined} :
                   Count(heap[1].v, e) = Count(out.before, e)
             /\ \A i \in DOMAIN out.swaps :
                   /\ out.swaps[i][1] \in 0..(Len(out.before) - 1)
                   /\ out.swaps[i][2] \in 0..(Len(out.before) - 1)
        ELSE /\ out.res = Throw("RangeError")
             /\ heap[1].v = out.before
             /\ out.swaps = <<>>

C30_Witness ==
    /\ op = "rotateRight"
    /\ out.arg = Num(1)
    /\ out.before = <<Num(0), Num(1), Str("a"), Str("b")>>
    /\ out.swaps = <<<<0, 3>>, <<1, 2>>, <<2, 3>>>>
    /\ heap[1].v = <<Str("b"), Str("a"), Num(0), Num(1)>>

(* C28: RangeInclusiveExpr(start, end) with integer bounds contains       *)
(* exactly the x with start <= x <= end: contains(end) is true and          *)
(* contains(end + 1) is false.                                              *)
C28_InclusiveContains ==
    op = "contains" =>
        (out.res <=> (args.start <= out.item /\ out.item <= args.end))

(* C29: predicates and unwrapping agree. For an Option, unwrap() raises   *)
(* exactly when isNone() is true; for a Result, unwrap() raises exactly     *)
(* when isErr() is true and unwrapErr() exactly when isOk() is true.        *)
C29_PredicatesAgree ==
    /\ op = "OptionTs.unwrap" => (IsThrow(out.unwrap) <=> out.isNone)
    /\ op = "Sum.unwrap" =>
          /\ IsThrow(out.unwrap) <=> out.isErr
          /\ IsThrow(out.unwrapErr) <=> out.isOk

C29_Witness ==
    /\ op = "Sum.unwrap"
    /\ out.arg = mkOk(Null)
    /\ out.isOk
    /\ IsThrow(out.unwrapErr)
    /\ out.unwrap = Null

====
